---------------------------- MODULE Spec2Model ----------------------------
(***************************************************************************)
(* A model of budplate (src/src/lib.rs): the template parser               *)
(* Template::parse, the code generator ParsedTemplate::to_bud_source, the  *)
(* encoders NoEncoding / HtmlEncoding and the driver                       *)
(* Configuration::render_with.                                             *)
(*                                                                         *)
(* A str is a sequence of one-character strings.  Template texts are       *)
(* ASCII, so a byte offset is a character offset; the encoder's input      *)
(* also holds a two-byte character and is handled as UTF-8 bytes.          *)
(* Ranges are Rust ranges: 0-based and half open, [lo, hi).                *)
(***************************************************************************)
EXTENDS Naturals, Sequences, FiniteSets

VARIABLES
    pc,          \* position inside render_with / encode
    source,      \* Template.source
    symbols,     \* the argument names handed to render_with
    segments,    \* ParsedTemplate.segments
    bud_source,  \* the String built by to_bud_source, one token per write
    outcome,     \* how the call ended: "None" | "Ok" | "Err" | "Panic"
    error,       \* the Error variant returned, the evaluator failure unwrapped, or "None"
    rendered,    \* the String returned by render_with
    input,       \* encode's input, as UTF-8 bytes
    encoded      \* what encode wrote to its output

vars == <<pc, source, symbols, segments, bud_source, outcome, error, rendered,
          input, encoded>>

---------------------------------------------------------------------------
(* Bounds of the model. *)

\* Template texts built from at most MaxPieces pieces of Pieces.
MaxPieces == 4
\* Well-formed template texts with at most MaxCommands commands.
MaxCommands == 2
\* Encoder inputs of at most MaxInput characters.
MaxInput == 3

---------------------------------------------------------------------------
(* str helpers *)

\* &s[lo..hi]
Slice(s, lo, hi) == SubSeq(s, lo + 1, hi)

\* char::is_whitespace, on the characters of the model
IsWhitespace(c) == c \in {" ", "\t", "\n"}

RECURSIVE TrimStart(_)
\* str::trim_start
TrimStart(s) ==
    IF s # <<>> /\ IsWhitespace(Head(s)) THEN TrimStart(Tail(s)) ELSE s

RECURSIVE TrimEnd(_)
\* str::trim_end
TrimEnd(s) ==
    IF s # <<>> /\ IsWhitespace(s[Len(s)])
    THEN TrimEnd(SubSeq(s, 1, Len(s) - 1))
    ELSE s

\* str::trim
Trim(s) == TrimEnd(TrimStart(s))

\* the pattern pat occurs in s at offset pos, inside s[..hi]
MatchesAt(s, pat, pos, hi) ==
    /\ pos + Len(pat) <= hi
    /\ \A k \in 1..Len(pat) : s[pos + k] = pat[k]

RECURSIVE SplitFrom(_, _, _, _, _)
\* The pieces of s[start..hi] left by str::split(pat), as ranges: the matches
\* are found left to right and do not overlap; pos is the scan position.
SplitFrom(s, pat, start, pos, hi) ==
    IF pos + Len(pat) > hi
    THEN << [lo |-> start, hi |-> hi] >>
    ELSE IF MatchesAt(s, pat, pos, hi)
         THEN << [lo |-> start, hi |-> pos] >>
              \o SplitFrom(s, pat, pos + Len(pat), pos + Len(pat), hi)
         ELSE SplitFrom(s, pat, start, pos + 1, hi)

\* s[lo..hi].split(pat): never empty, a text without pat is one piece
Split(s, pat, lo, hi) == SplitFrom(s, pat, lo, lo, hi)

OpenBraces == << "{", "{" >>
EndBraces == << "}", "}" >>

---------------------------------------------------------------------------
(* Template::parse *)

\* Segment { kind: SegmentKind::Raw, range }
RawSegment(range) ==
    [kind |-> "Raw", trim_before |-> FALSE, trim_after |-> FALSE,
     safe |-> FALSE, lo |-> range.lo, hi |-> range.hi]

\* StripPrefix gone wrong: the prefix is found and left in the range
StripPrefixKeepsPrefix(s, pat, range) ==
    [stripped |-> MatchesAt(s, pat, range.lo, range.hi), lo |-> range.lo, hi |-> range.hi]

\* command.strip_prefix(pat): the range left, or the same range when there
\* is no such prefix; stripped says which
StripPrefix(s, pat, range) ==
    IF MatchesAt(s, pat, range.lo, range.hi)
    THEN [stripped |-> TRUE, lo |-> range.lo + Len(pat), hi |-> range.hi]
    ELSE [stripped |-> FALSE, lo |-> range.lo, hi |-> range.hi]

\* command.strip_suffix(pat)
StripSuffix(s, pat, range) ==
    IF range.hi - Len(pat) >= range.lo
       /\ MatchesAt(s, pat, range.hi - Len(pat), range.hi)
    THEN [stripped |-> TRUE, lo |-> range.lo, hi |-> range.hi - Len(pat)]
    ELSE [stripped |-> FALSE, lo |-> range.lo, hi |-> range.hi]

\* The CodeKind of a command and the command left: '=' is tried first, then ":=".
CodeKindOf(s, command) ==
    LET eq == StripPrefix(s, << "=" >>, command)
        ceq == StripPrefix(s, << ":", "=" >>, command)
    IN  IF eq.stripped
        THEN [code_kind |-> "UnsafeExpression", lo |-> eq.lo, hi |-> eq.hi]
        ELSE IF ceq.stripped
             THEN [code_kind |-> "SafeExpression", lo |-> ceq.lo, hi |-> ceq.hi]
             ELSE [code_kind |-> "Statement", lo |-> command.lo, hi |-> command.hi]

\* trim_before from a leading '-', then trim_after from a trailing '-' of
\* what the first strip left
TrimmingOf(s, command) ==
    LET before == StripPrefix(s, << "-" >>, command)
        after == StripSuffix(s, << "-" >>, before)
    IN  [trim_before |-> before.stripped, trim_after |-> after.stripped,
         lo |-> after.lo, hi |-> after.hi]

\* The code segment of one command.
CodeSegment(s, command) ==
    LET kinded == CodeKindOf(s, command)
        trimming == TrimmingOf(s, kinded)
    IN  [kind |-> IF kinded.code_kind = "Statement" THEN "Statement" ELSE "Expression",
         trim_before |-> trimming.trim_before,
         trim_after |-> trimming.trim_after,
         safe |-> kinded.code_kind = "SafeExpression",
         lo |-> trimming.lo, hi |-> trimming.hi]

ParseOk(segs) == [ok |-> TRUE, segments |-> segs, error |-> "None"]
ParseErr(e) == [ok |-> FALSE, segments |-> <<>>, error |-> e]

RECURSIVE ParseParts(_, _, _, _)
\* The loop over the pieces that follow an opening marker.
ParseParts(s, parts, i, segs) ==
    IF i > Len(parts)
    THEN ParseOk(segs)
    ELSE LET command_parts == Split(s, EndBraces, parts[i].lo, parts[i].hi)
         IN  IF Len(command_parts) = 0
             THEN ParseErr("MissingEndBraces")
             ELSE LET with_code == Append(segs, CodeSegment(s, command_parts[1]))
                  IN  IF Len(command_parts) >= 2
                      THEN IF Len(command_parts) >= 3
                           THEN ParseErr("UnexpectedEndBrances")
                           ELSE ParseParts(s, parts, i + 1,
                                    Append(with_code, RawSegment(command_parts[2])))
                      ELSE ParseParts(s, parts, i + 1, with_code)

\* Template::parse
Parse(s) ==
    LET parts == Split(s, OpenBraces, 0, Len(s))
    IN  IF Len(parts) = 0
        THEN ParseOk(<<>>)
        ELSE ParseParts(s, parts, 2, << RawSegment(parts[1]) >>)

---------------------------------------------------------------------------
(* ParsedTemplate::to_bud_source.  The String is kept as the sequence of   *)
(* its writes: a Text is text the generator writes itself, a Literal is    *)
(* StringLiteralDisplay::new(literal), a Code is template text written     *)
(* through "{expression}" or "{statement}".                                *)

Text(t) == [k |-> "text", t |-> t, s |-> <<>>]
Literal(s) == [k |-> "literal", t |-> "", s |-> s]
Code(s) == [k |-> "code", t |-> "", s |-> s]
Newline == Text("\n")

RECURSIVE ParameterList(_, _)
\* the parameters, ", " between them
ParameterList(parameters, index) ==
    IF index > Len(parameters)
    THEN <<>>
    ELSE (IF index > 1 THEN << Text(", ") >> ELSE <<>>)
         \o << Text(parameters[index]) >>
         \o ParameterList(parameters, index + 1)

\* "function name(parameters)\noutput := \"\"\n"
Header(name, parameters) ==
    << Text("function "), Text(name), Text("(") >>
    \o ParameterList(parameters, 1)
    \o << Text(")"), Newline, Text("output := \"\""), Newline >>

\* "\noutput\nend"
Footer == << Newline, Text("output"), Newline, Text("end") >>

IsCodeSegment(segment) == segment.kind \in {"Statement", "Expression"}

\* what opens an operand: a new assignment at a line start, " + " otherwise
Operand(is_at_line_start) ==
    IF is_at_line_start THEN << Text("output := output + ") >> ELSE << Text(" + ") >>

\* RawLiteral gone wrong: a trim_after of any earlier code segment still counts
RawLiteralStickyTrim(s, segs, i, trim_next_start) ==
    LET literal == Slice(s, segs[i].lo, segs[i].hi)
        sticky == \E j \in 1..(i - 1) : IsCodeSegment(segs[j]) /\ segs[j].trim_after
        started == IF trim_next_start \/ sticky THEN TrimStart(literal) ELSE literal
    IN  IF i < Len(segs) /\ IsCodeSegment(segs[i + 1]) /\ segs[i + 1].trim_before
        THEN TrimEnd(started)
        ELSE started

\* RawLiteral gone wrong: every literal is trimmed
RawLiteralAlwaysTrimmed(s, segs, i, trim_next_start) ==
    Trim(Slice(s, segs[i].lo, segs[i].hi))

\* the literal written for a Raw segment; i is its index in segs
RawLiteral(s, segs, i, trim_next_start) ==
    LET literal == Slice(s, segs[i].lo, segs[i].hi)
        started == IF trim_next_start THEN TrimStart(literal) ELSE literal
    IN  IF i < Len(segs) /\ IsCodeSegment(segs[i + 1]) /\ segs[i + 1].trim_before
        THEN TrimEnd(started)
        ELSE started

\* ExpressionTokens gone wrong: safe taken for "to be encoded"
ExpressionTokensSafeEncoded(expression, safe) ==
    IF safe
    THEN << Text("encode(("), Code(expression), Text(") as String)") >>
    ELSE << Text("(("), Code(expression), Text(") as String)") >>

\* the writes of an Expression segment
ExpressionTokens(expression, safe) ==
    IF safe
    THEN << Text("(("), Code(expression), Text(") as String)") >>
    ELSE << Text("encode(("), Code(expression), Text(") as String)") >>

\* StatementTokens gone wrong: the open chain's line is not ended first
StatementTokensNoLineBreak(statement, is_at_line_start) ==
    << Code(statement), Newline >>

\* the writes of a Statement segment
StatementTokens(statement, is_at_line_start) ==
    (IF ~is_at_line_start THEN << Newline >> ELSE <<>>)
    \o << Code(statement), Newline >>

RECURSIVE EmitSegments(_, _, _, _, _)
\* the while loop of to_bud_source, from segment i on
EmitSegments(s, segs, i, trim_next_start, is_at_line_start) ==
    IF i > Len(segs)
    THEN <<>>
    ELSE LET segment == segs[i]
         IN  CASE segment.kind = "Raw" ->
                    IF segment.lo >= segment.hi
                    THEN EmitSegments(s, segs, i + 1, trim_next_start, is_at_line_start)
                    ELSE Operand(is_at_line_start)
                         \o << Literal(RawLiteral(s, segs, i, trim_next_start)) >>
                         \o EmitSegments(s, segs, i + 1, trim_next_start, FALSE)
               [] segment.kind = "Statement" ->
                    StatementTokens(Trim(Slice(s, segment.lo, segment.hi)), is_at_line_start)
                    \o EmitSegments(s, segs, i + 1, segment.trim_after, TRUE)
               [] segment.kind = "Expression" ->
                    Operand(is_at_line_start)
                    \o ExpressionTokens(Trim(Slice(s, segment.lo, segment.hi)), segment.safe)
                    \o EmitSegments(s, segs, i + 1, segment.trim_after, FALSE)

\* ParsedTemplate::to_bud_source
ToBudSourceOf(s, segs, name, parameters) ==
    Header(name, parameters) \o EmitSegments(s, segs, 1, FALSE, TRUE) \o Footer

---------------------------------------------------------------------------
(* Encoder: NoEncoding and HtmlEncoding.  A str is its UTF-8 bytes here;   *)
(* the two bytes of the one non-ASCII character of the model are "C3" and  *)
(* "A9".                                                                   *)

RECURSIVE CharIndices(_, _)
\* input.char_indices(), from byte offset index on
CharIndices(bytes, index) ==
    IF index >= Len(bytes)
    THEN <<>>
    ELSE IF bytes[index + 1] = "C3"
         THEN << [index |-> index, ch |-> "e'"] >> \o CharIndices(bytes, index + 2)
         ELSE << [index |-> index, ch |-> bytes[index + 1]] >>
              \o CharIndices(bytes, index + 1)

\* the arms of the match that do not continue
IsEscaped(ch) == ch \in {"&", "<", ">", "\"", "'"}

\* the match of HtmlEncoding::encode
Entity(ch) ==
    CASE ch = "&" -> << "&", "a", "m", "p", ";" >>
      [] ch = "<" -> << "&", "l", "t", ";" >>
      [] ch = ">" -> << "&", "g", "t", ";" >>
      [] ch = "\"" -> << "&", "q", "u", "o", "t", ";" >>
      [] ch = "'" -> << "&", "#", "3", "9", ";" >>

\* the unmatched run input[last_byte_written..index], written when not empty
PendingRun(bytes, last_byte_written, index) ==
    IF last_byte_written < index THEN Slice(bytes, last_byte_written, index) ELSE <<>>

\* EncodeStep gone wrong: last_byte_written = index, the matched byte is kept
EncodeStepKeepsByte(bytes, st, index, ch) ==
    IF ~IsEscaped(ch)
    THEN st
    ELSE [last_byte_written |-> index,
          output |-> st.output \o PendingRun(bytes, st.last_byte_written, index)
                     \o Entity(ch)]

\* one turn of the for loop
EncodeStep(bytes, st, index, ch) ==
    IF ~IsEscaped(ch)
    THEN st
    ELSE [last_byte_written |-> index + 1,
          output |-> st.output \o PendingRun(bytes, st.last_byte_written, index)
                     \o Entity(ch)]

RECURSIVE EncodeLoop(_, _, _, _)
EncodeLoop(bytes, indices, k, st) ==
    IF k > Len(indices)
    THEN st
    ELSE EncodeLoop(bytes, indices, k + 1,
                    EncodeStep(bytes, st, indices[k].index, indices[k].ch))

\* HtmlEncoding::encode
HtmlEncode(bytes) ==
    LET st == EncodeLoop(bytes, CharIndices(bytes, 0), 1,
                         [last_byte_written |-> 0, output |-> <<>>])
    IN  st.output \o PendingRun(bytes, st.last_byte_written, Len(bytes))

\* NoEncoding::encode
NoEncode(bytes) == bytes

---------------------------------------------------------------------------
(* The evaluator (budlang::Bud) as render_with uses it.  Its code is not   *)
(* part of this repository.  A program without template code is a chain   *)
(* of string literals: it compiles and returns their concatenation.  A     *)
(* program holding template code may fail to compile and may fault; the   *)
(* string it returns is not computed here, its literals stand for it.      *)

HasCode(tokens) == \E i \in 1..Len(tokens) : tokens[i].k = "code"

RECURSIVE Literals(_)
\* the literals of a program, concatenated
Literals(tokens) ==
    IF tokens = <<>>
    THEN <<>>
    ELSE (IF Head(tokens).k = "literal" THEN Head(tokens).s ELSE <<>>)
         \o Literals(Tail(tokens))

\* the results bud.evaluate::<()>(&bud_source) can have
EvaluateResults(tokens) ==
    IF HasCode(tokens) THEN {"Ok", "CompileError"} ELSE {"Ok"}

\* the results bud.run(..) can have: a fault, or a string
RunResults(tokens) ==
    IF HasCode(tokens)
    THEN {[ok |-> FALSE, value |-> <<>>],
          [ok |-> TRUE, value |-> Literals(tokens)]}
    ELSE {[ok |-> TRUE, value |-> Literals(tokens)]}

\* Result::unwrap: the value, or a panic
Unwrap(ok) == IF ok THEN "Ok" ELSE "Panic"

---------------------------------------------------------------------------
(* The inputs *)

Pieces ==
    { << "{", "{" >>, << "}", "}" >>, << "=" >>, << ":", "=" >>, << "-" >>,
      << " " >>, << "a" >> }

RECURSIVE PieceTexts(_)
\* the texts of at most n pieces
PieceTexts(n) ==
    IF n = 0
    THEN { <<>> }
    ELSE LET shorter == PieceTexts(n - 1)
         IN  shorter \cup { t \o p : t \in shorter, p \in Pieces }

RawTexts == { <<>>, << " ", "a", " " >> }

\* "{{" prefix [-] body [-] "}}"
CommandTexts ==
    { OpenBraces \o prefix \o before \o << " ", "a", " " >> \o after \o EndBraces :
        prefix \in { <<>>, << "=" >>, << ":", "=" >> },
        before \in { <<>>, << "-" >> },
        after \in { <<>>, << "-" >> } }

RECURSIVE WellFormedTexts(_)
\* raw text and commands in turn, at most n commands
WellFormedTexts(n) ==
    IF n = 0
    THEN RawTexts
    ELSE LET shorter == WellFormedTexts(n - 1)
         IN  shorter \cup { t \o c \o r : t \in shorter, c \in CommandTexts, r \in RawTexts }

TemplateTexts == PieceTexts(MaxPieces) \cup WellFormedTexts(MaxCommands)

\* the argument names a caller passes
ArgumentNames == { <<>>, << "name" >> }

EncoderChars == { "&", "<", ">", "\"", "'", "a", "e'" }

\* str::as_bytes of one character
Utf8(ch) == IF ch = "e'" THEN << "C3", "A9" >> ELSE << ch >>

RECURSIVE EncoderInputs(_)
\* the strings of at most n characters, as bytes
EncoderInputs(n) ==
    IF n = 0
    THEN { <<>> }
    ELSE LET shorter == EncoderInputs(n - 1)
         IN  shorter \cup { t \o Utf8(ch) : t \in shorter, ch \in EncoderChars }

---------------------------------------------------------------------------
(* Configuration::render_with, as Template::render_with calls it *)

Init ==
    /\ pc = "start"
    /\ source \in TemplateTexts
    /\ symbols = <<>>
    /\ segments = <<>>
    /\ bud_source = <<>>
    /\ outcome = "None"
    /\ error = "None"
    /\ rendered = <<>>
    /\ input = <<>>
    /\ encoded = <<>>

\* let template = template.parse()?;
ParseStep ==
    /\ pc = "start"
    /\ LET parsed == Parse(source)
       IN  IF parsed.ok
           THEN /\ segments' = parsed.segments
                /\ pc' = "parsed"
                /\ UNCHANGED <<outcome, error>>
           ELSE /\ pc' = "done"
                /\ outcome' = "Err"
                /\ error' = parsed.error
                /\ UNCHANGED segments
    /\ UNCHANGED <<source, symbols, bud_source, rendered, input, encoded>>

\* the unzip of args, and template.to_bud_source("render", &symbols)
ToBudSource ==
    /\ pc = "parsed"
    /\ \E names \in ArgumentNames :
          /\ symbols' = names
          /\ bud_source' = ToBudSourceOf(source, segments, "render", names)
    /\ pc' = "generated"
    /\ UNCHANGED <<source, segments, outcome, error, rendered, input, encoded>>

\* bud.evaluate::<()>(&bud_source).unwrap()
Evaluate ==
    /\ pc = "generated"
    /\ \E result \in EvaluateResults(bud_source) :
          IF Unwrap(result = "Ok") = "Ok"
          THEN /\ pc' = "compiled"
               /\ UNCHANGED <<outcome, error>>
          ELSE /\ pc' = "done"
               /\ outcome' = "Panic"
               /\ error' = result
    /\ UNCHANGED <<source, symbols, segments, bud_source, rendered, input, encoded>>

\* Ok(bud.run(..).unwrap())
Run ==
    /\ pc = "compiled"
    /\ \E result \in RunResults(bud_source) :
          IF Unwrap(result.ok) = "Ok"
          THEN /\ outcome' = "Ok"
               /\ rendered' = result.value
               /\ UNCHANGED error
          ELSE /\ outcome' = "Panic"
               /\ error' = "Fault"
               /\ UNCHANGED rendered
    /\ pc' = "done"
    /\ UNCHANGED <<source, symbols, segments, bud_source, input, encoded>>

Next == ParseStep \/ ToBudSource \/ Evaluate \/ Run

Spec == Init /\ [][Next]_vars

---------------------------------------------------------------------------
(* Encoder::encode on its own *)

InitEncode ==
    /\ pc = "encode"
    /\ input \in EncoderInputs(MaxInput)
    /\ source = <<>>
    /\ symbols = <<>>
    /\ segments = <<>>
    /\ bud_source = <<>>
    /\ outcome = "None"
    /\ error = "None"
    /\ rendered = <<>>
    /\ encoded = <<>>

\* HtmlEncoding.encode(input, &mut encoded)
EncodeHtml ==
    /\ pc = "encode"
    /\ encoded' = HtmlEncode(input)
    /\ pc' = "HtmlEncoding"
    /\ UNCHANGED <<source, symbols, segments, bud_source, outcome, error, rendered, input>>

\* NoEncoding.encode(input, &mut encoded)
EncodeNone ==
    /\ pc = "encode"
    /\ encoded' = NoEncode(input)
    /\ pc' = "NoEncoding"
    /\ UNCHANGED <<source, symbols, segments, bud_source, outcome, error, rendered, input>>

NextEncode == EncodeHtml \/ EncodeNone

SpecEncode == InitEncode /\ [][NextEncode]_vars

---------------------------------------------------------------------------
(* What the claims speak of *)

\* parse has just returned Ok(ParsedTemplate { source, segments })
Accepted == pc = "parsed"

\* the pieces of the text that follow an opening marker
AfterBraceStarts == Tail(Split(source, OpenBraces, 0, Len(source)))

\* pat occurs somewhere in s[lo..hi]
Occurs(s, pat, lo, hi) == \E pos \in lo..hi : MatchesAt(s, pat, pos, hi)

\* the text between an opening marker and its closing marker (or the end of the piece)
CommandOf(part) == Split(source, EndBraces, part.lo, part.hi)[1]

\* the piece holds a closing marker
IsClosed(part) == Occurs(source, EndBraces, part.lo, part.hi)

CodeSegments == SelectSeq(segments, IsCodeSegment)

\* C1: a text with an opening marker that has no closing marker before the
\* next opening marker or the end of input is refused with MissingEndBraces.
C1_MissingEndBraces ==
    (/\ pc # "start"
     /\ \E i \in 1..Len(AfterBraceStarts) : ~IsClosed(AfterBraceStarts[i]))
    => (pc = "done" /\ outcome = "Err" /\ error = "MissingEndBraces")

\* a closing marker in the text before the first opening marker, or a second
\* one after a command
HasStrayEndBraces ==
    LET parts == Split(source, OpenBraces, 0, Len(source))
    IN  \/ Occurs(source, EndBraces, parts[1].lo, parts[1].hi)
        \/ \E i \in 2..Len(parts) :
              Len(Split(source, EndBraces, parts[i].lo, parts[i].hi)) >= 3

\* C2: a text with a closing marker in literal text, outside any command, is
\* refused with UnexpectedEndBrances.
C2_UnexpectedEndBraces ==
    (pc # "start" /\ HasStrayEndBraces)
    => (pc = "done" /\ outcome = "Err" /\ error = "UnexpectedEndBrances")

RECURSIVE Concat(_)
Concat(seqs) == IF seqs = <<>> THEN <<>> ELSE Head(seqs) \o Concat(Tail(seqs))

\* the ranges lie one after the other: no two overlap, the starts increase
RangesIncrease ==
    \A i \in 1..Len(segments) :
        /\ segments[i].lo <= segments[i].hi
        /\ i < Len(segments) =>
              /\ segments[i].hi <= segments[i + 1].lo
              /\ segments[i].lo < segments[i + 1].lo

\* the text of the segments with only the two markers put back
RebuiltWithBraces ==
    Concat([i \in 1..Len(segments) |->
        IF IsCodeSegment(segments[i])
        THEN OpenBraces \o Slice(source, segments[i].lo, segments[i].hi) \o EndBraces
        ELSE Slice(source, segments[i].lo, segments[i].hi)])

\* every opening marker of the text has its closing marker
AllClosed == \A i \in 1..Len(AfterBraceStarts) : IsClosed(AfterBraceStarts[i])

\* C3 as stated: the ranges' text with "{{" before and "}}" after each code
\* segment is the template text, and the ranges increase without overlap
\* (stated for the texts whose commands are all closed, where C1 has no part).
C3_ReconstructionWithBraces ==
    (Accepted /\ AllClosed) => (RebuiltWithBraces = source /\ RangesIncrease)

\* what parse removed before a code segment's range, read back from its kind and flags
RemovedBefore(segment) ==
    OpenBraces
    \o (IF segment.kind = "Statement" THEN <<>>
        ELSE IF segment.safe THEN << ":", "=" >> ELSE << "=" >>)
    \o (IF segment.trim_before THEN << "-" >> ELSE <<>>)

\* what parse removed after the range; the closing marker was there exactly
\* when a Raw segment follows
RemovedAfter(i) ==
    (IF segments[i].trim_after THEN << "-" >> ELSE <<>>)
    \o (IF i < Len(segments) /\ segments[i + 1].kind = "Raw" THEN EndBraces ELSE <<>>)

RebuiltWithMarkers ==
    Concat([i \in 1..Len(segments) |->
        IF IsCodeSegment(segments[i])
        THEN RemovedBefore(segments[i])
             \o Slice(source, segments[i].lo, segments[i].hi)
             \o RemovedAfter(i)
        ELSE Slice(source, segments[i].lo, segments[i].hi)])

\* C3, amended: the ranges' text, with each code segment preceded by "{{", its
\* kind's prefix and "-" if trim_before, and followed by "-" if trim_after and
\* by "}}" if a Raw segment follows it, is the template text; the ranges
\* increase without overlap.
C3_ReconstructionWithMarkers ==
    Accepted => (RebuiltWithMarkers = source /\ RangesIncrease)

C3_Witness ==
    /\ pc = "parsed"
    /\ Len(segments) >= 5
    /\ \E i \in 1..Len(segments) :
          /\ segments[i].kind = "Expression"
          /\ segments[i].trim_before
          /\ segments[i].trim_after
          /\ segments[i].lo < segments[i].hi

\* how a piece of template code stands in the program
WrittenAs(tokens, j) ==
    LET before == tokens[j - 1]
        after == tokens[j + 1]
    IN  IF before = Text("((") /\ after = Text(") as String)") THEN "bare"
        ELSE IF before = Text("encode((") /\ after = Text(") as String)") THEN "encode"
        ELSE IF before = Newline /\ after = Newline THEN "statement"
        ELSE "other"

RECURSIVE CodeUses(_, _)
\* how each piece of template code stands in the program, in order
CodeUses(tokens, j) ==
    IF j > Len(tokens)
    THEN <<>>
    ELSE (IF tokens[j].k = "code" THEN << WrittenAs(tokens, j) >> ELSE <<>>)
         \o CodeUses(tokens, j + 1)

\* how the text of a command asks for it to be written
AskedFor(part) ==
    LET command == CommandOf(part)
    IN  IF MatchesAt(source, << ":", "=" >>, command.lo, command.hi) THEN "bare"
        ELSE IF MatchesAt(source, << "=" >>, command.lo, command.hi) THEN "encode"
        ELSE "statement"

\* C4: a command beginning with ":=" is written as a bare string conversion,
\* one beginning with "=" inside the encode call, any other as a statement on
\* its own, neither wrapped nor concatenated.
C4_PrefixDecidesEncoding ==
    pc = "generated"
    => LET parts == AfterBraceStarts
       IN  CodeUses(bud_source, 1) = [i \in 1..Len(parts) |-> AskedFor(parts[i])]

C4_Witness ==
    /\ pc = "generated"
    /\ \E i, j \in 1..Len(AfterBraceStarts) :
          /\ AskedFor(AfterBraceStarts[i]) = "bare"
          /\ AskedFor(AfterBraceStarts[j]) = "encode"
    /\ \E j \in 1..Len(bud_source) : bud_source[j] = Text("encode((")
    /\ \E j \in 1..Len(bud_source) : bud_source[j] = Text("((")

\* the literal a Raw segment stands for, by its two neighbours alone
NeighbourTrimmed(i) ==
    LET text == Slice(source, segments[i].lo, segments[i].hi)
        leading == i > 1 /\ IsCodeSegment(segments[i - 1]) /\ segments[i - 1].trim_after
        trailing == i < Len(segments) /\ IsCodeSegment(segments[i + 1])
                    /\ segments[i + 1].trim_before
    IN  CASE leading /\ trailing -> TrimEnd(TrimStart(text))
          [] leading /\ ~trailing -> TrimStart(text)
          [] ~leading /\ trailing -> TrimEnd(text)
          [] OTHER -> text

IsNonEmptyRaw(segment) == segment.kind = "Raw" /\ segment.lo < segment.hi

RECURSIVE ExpectedLiterals(_)
ExpectedLiterals(i) ==
    IF i > Len(segments)
    THEN <<>>
    ELSE (IF IsNonEmptyRaw(segments[i]) THEN << NeighbourTrimmed(i) >> ELSE <<>>)
         \o ExpectedLiterals(i + 1)

RECURSIVE LiteralsWritten(_)
LiteralsWritten(tokens) ==
    IF tokens = <<>>
    THEN <<>>
    ELSE (IF Head(tokens).k = "literal" THEN << Head(tokens).s >> ELSE <<>>)
         \o LiteralsWritten(Tail(tokens))

\* C5: the literal written for a non-empty Raw segment is its text, leading
\* whitespace stripped exactly when the segment right before it is a code
\* segment with trim_after, trailing whitespace stripped exactly when the
\* segment right after it is a code segment with trim_before.
C5_LiteralsTrimmed ==
    pc = "generated" => LiteralsWritten(bud_source) = ExpectedLiterals(1)

\* C5: ... and the template text is never changed.
C5_TrimByNeighboursOnly ==
    [](C5_LiteralsTrimmed) /\ [][source' = source]_vars

\* a Raw segment with leading and trailing whitespace that keeps both although
\* a code segment two places before it has trim_after and one two places
\* after it has trim_before, next to one that is trimmed at both ends
C5_Witness ==
    /\ pc = "generated"
    /\ Len(segments) = 5
    /\ segments[2].trim_after /\ ~segments[2].trim_before
    /\ segments[4].trim_before /\ ~segments[4].trim_after
    /\ \A i \in {1, 3, 5} :
          /\ IsNonEmptyRaw(segments[i])
          /\ source[segments[i].lo + 1] = " "
          /\ source[segments[i].hi] = " "
    /\ LiteralsWritten(bud_source)
       = << Slice(source, segments[1].lo, segments[1].hi),
            Trim(Slice(source, segments[3].lo, segments[3].hi)),
            Slice(source, segments[5].lo, segments[5].hi) >>

\* C6: render_with ends by returning the string or an error; a compile
\* failure or a fault of the evaluator is returned as the call's error.
C6_OkOrErr ==
    pc = "done"
    => /\ outcome \in {"Ok", "Err"}
       /\ error \in {"CompileError", "Fault"} => outcome = "Err"

\* the substitution table of the claim
EntityReference(ch) ==
    CASE ch = "&" -> << "&", "a", "m", "p", ";" >>
      [] ch = "<" -> << "&", "l", "t", ";" >>
      [] ch = ">" -> << "&", "g", "t", ";" >>
      [] ch = "\"" -> << "&", "q", "u", "o", "t", ";" >>
      [] ch = "'" -> << "&", "#", "3", "9", ";" >>
      [] OTHER -> Utf8(ch)

\* every character replaced on its own, in order
Substituted(bytes) ==
    LET indices == CharIndices(bytes, 0)
    IN  Concat([k \in 1..Len(indices) |-> EntityReference(indices[k].ch)])

\* C7: HtmlEncoding::encode writes the input with each of & < > " ' replaced
\* by its entity reference and every other character copied, in order;
\* NoEncoding::encode writes the input.
C7_EncodeSubstitutes ==
    /\ pc = "HtmlEncoding" => encoded = Substituted(input)
    /\ pc = "NoEncoding" => encoded = input

\* two matched characters in a row, then an unmatched two-byte character at the end
C7_Witness ==
    /\ pc = "HtmlEncoding"
    /\ Len(input) = 4
    /\ IsEscaped(input[1]) /\ IsEscaped(input[2])
    /\ input[3] = "C3" /\ input[4] = "A9"
    /\ Len(encoded) > Len(input)

\* the command text once its kind prefix is removed
AfterKindPrefix(part) ==
    LET command == CommandOf(part)
    IN  IF MatchesAt(source, << ":", "=" >>, command.lo, command.hi)
        THEN [lo |-> command.lo + 2, hi |-> command.hi]
        ELSE IF MatchesAt(source, << "=" >>, command.lo, command.hi)
             THEN [lo |-> command.lo + 1, hi |-> command.hi]
             ELSE command

\* C8: for a command with its closing marker, trim_before is set exactly when
\* a "-" follows the kind prefix at once, trim_after exactly when a "-" stands
\* right before the closing marker, each whatever the other is.
C8_TrimFlagsIndependent ==
    Accepted =>
        \A i \in 1..Len(AfterBraceStarts) :
            IsClosed(AfterBraceStarts[i]) =>
                LET rest == AfterKindPrefix(AfterBraceStarts[i])
                IN  /\ CodeSegments[i].trim_before
                       <=> (rest.lo < rest.hi /\ source[rest.lo + 1] = "-")
                    /\ CodeSegments[i].trim_after
                       <=> (rest.lo < rest.hi /\ source[rest.hi] = "-")

\* neither marker occurs in the text
NoMarkers ==
    /\ ~Occurs(source, OpenBraces, 0, Len(source))
    /\ ~Occurs(source, EndBraces, 0, Len(source))

\* the assignments of the program that append to output
Appends(tokens) == { j \in 1..Len(tokens) : tokens[j] = Text("output := output + ") }

\* C9: a text without "{{" and "}}" parses to one Raw segment over the whole
\* text, the program appends at most one literal, the whole text untrimmed,
\* and render returns the text.
C9_NoMarkersRoundTrip ==
    (NoMarkers /\ pc # "start") =>
        /\ outcome \in {"None", "Ok"}
        /\ segments = << RawSegment([lo |-> 0, hi |-> Len(source)]) >>
        /\ pc \in {"generated", "compiled", "done"} =>
              /\ Cardinality(Appends(bud_source)) <= 1
              /\ LiteralsWritten(bud_source)
                 = IF source = <<>> THEN <<>> ELSE << source >>
              /\ ~HasCode(bud_source)
        /\ pc = "done" => (outcome = "Ok" /\ rendered = source)

\* a text that is whitespace at both ends, rendered
C9_Witness ==
    /\ NoMarkers
    /\ pc = "done"
    /\ Len(source) >= 3
    /\ source[1] = " " /\ source[Len(source)] = " "
    /\ rendered = source

RECURSIVE SplitLines(_, _)
\* the lines of a program: line is the line being read
SplitLines(tokens, line) ==
    IF tokens = <<>>
    THEN << line >>
    ELSE IF Head(tokens) = Newline
         THEN << line >> \o SplitLines(Tail(tokens), <<>>)
         ELSE SplitLines(Tail(tokens), Append(line, Head(tokens)))

\* the indices of segments, for the segments that write something
RECURSIVE WrittenIndices(_)
WrittenIndices(i) ==
    IF i > Len(segments)
    THEN <<>>
    ELSE (IF segments[i].kind # "Raw" \/ segments[i].lo < segments[i].hi
          THEN << i >> ELSE <<>>)
         \o WrittenIndices(i + 1)

\* one operand of a chain
OperandOf(i) ==
    IF segments[i].kind = "Raw"
    THEN << Literal(NeighbourTrimmed(i)) >>
    ELSE << Text(IF segments[i].safe THEN "((" ELSE "encode(("),
            Code(Trim(Slice(source, segments[i].lo, segments[i].hi))),
            Text(") as String)") >>

RECURSIVE JoinedOperands(_)
\* the operands of a run, " + " between them
JoinedOperands(run) ==
    IF Len(run) = 1
    THEN OperandOf(run[1])
    ELSE OperandOf(run[1]) \o << Text(" + ") >> \o JoinedOperands(Tail(run))

RECURSIVE RunLength(_)
\* how many segments at the head of ws are not a Statement
RunLength(ws) ==
    IF ws = <<>> \/ segments[Head(ws)].kind = "Statement"
    THEN 0
    ELSE 1 + RunLength(Tail(ws))

RECURSIVE BodyLines(_)
\* one line for every Statement and one for every maximal run between them
BodyLines(ws) ==
    IF ws = <<>>
    THEN <<>>
    ELSE IF segments[Head(ws)].kind = "Statement"
         THEN << << Code(Trim(Slice(source, segments[Head(ws)].lo, segments[Head(ws)].hi))) >> >>
              \o BodyLines(Tail(ws))
         ELSE LET n == RunLength(ws)
              IN  << << Text("output := output + ") >> \o JoinedOperands(SubSeq(ws, 1, n)) >>
                  \o BodyLines(SubSeq(ws, n + 1, Len(ws)))

\* the body is at a line start when the footer is written
EndsAtLineStart ==
    LET ws == WrittenIndices(1)
    IN  ws = <<>> \/ segments[ws[Len(ws)]].kind = "Statement"

\* C10: after the function line and output := "", every maximal run of
\* non-empty Raw and Expression segments between Statements is one
\* output := output + ... line, its operands joined by " + ", every Statement
\* is a line of its own, trimmed, and the program ends with output and end.
C10_ChainsAndStatements ==
    pc = "generated" =>
        SplitLines(bud_source, <<>>)
        = << << Text("function "), Text("render"), Text("(") >>
                \o ParameterList(symbols, 1) \o << Text(")") >>,
             << Text("output := \"\"") >> >>
          \o BodyLines(WrittenIndices(1))
          \o (IF EndsAtLineStart THEN << <<>> >> ELSE <<>>)
          \o << << Text("output") >>, << Text("end") >> >>

\* a run of two operands, a Statement, and a run after it
C10_Witness ==
    /\ pc = "generated"
    /\ Len(segments) = 5
    /\ IsNonEmptyRaw(segments[1])
    /\ segments[2].kind = "Expression"
    /\ ~IsNonEmptyRaw(segments[3])
    /\ segments[4].kind = "Statement"
    /\ IsNonEmptyRaw(segments[5])
    /\ Cardinality(Appends(bud_source)) = 2

=============================================================================
